---- MODULE Spec2Model ----
(***************************************************************************)
(* A model of the file-based block archive (SimpleFileBasedBlockArchive): *)
(* the hash -> path sharding, the single-block operations on the          *)
(* filesystem, the background directory scan behind block_list and the    *)
(* channel-fed stream that consumes it.                                   *)
(*                                                                         *)
(* Strings are sequences of one-character strings, a path is a sequence   *)
(* of components (strings), a file's content is a sequence of bytes.      *)
(***************************************************************************)
EXTENDS Integers, Sequences, FiniteSets, TLC

VARIABLES
    dirs,     \* the directories that exist (a set of paths)
    files,    \* the regular files that exist: path -> content (bytes)
    task,     \* the store_block calls in progress, one record per caller
    scan,     \* the background task of each block_list call
    chan,     \* the mpsc channel of each block_list call
    stream,   \* the consumer's side of each block_list call
    call,     \* the last single-shot operation applied and its result
    stored    \* history: the hashes store_block was ever called with

vars == <<dirs, files, task, scan, chan, stream, call, stored>>

(***************************************************************************)
(* Bounds of the model.                                                    *)
(***************************************************************************)
\* longest byte sequence handed to store_block
MaxBlobLen == 2
\* capacity of the block_list channel (the source's MAX_BLOCKS, scaled down)
ChanCap == 2
\* number of foreign (not archive-written) files a scanned tree may hold
MaxForeign == 2
\* number of files in a tree that two streams scan at the same time
MaxScan2Files == 2

(***************************************************************************)
(* Program constants.                                                      *)
(***************************************************************************)
\* bitcoinsv Hash::SIZE, the bytes of a BlockHash (64 hex characters)
HASH_SIZE == 32
\* BlockHeader::SIZE, the bytes of an encoded block header
HEADER_SIZE == 80

HEX_SIZE == 2 * HASH_SIZE

(***************************************************************************)
(* Strings, hex, hashes.                                                   *)
(***************************************************************************)
LowerDigits == <<"0","1","2","3","4","5","6","7","8","9","a","b","c","d","e","f">>
UpperDigits == <<"0","1","2","3","4","5","6","7","8","9","A","B","C","D","E","F">>

Reverse(s) == [i \in 1..Len(s) |-> s[Len(s) + 1 - i]]

\* s[a..b) with 0-based byte offsets, as a Rust slice &s[a..b]
Slice(s, a, b) == SubSeq(s, a + 1, b)

\* hex::encode of a byte sequence: two lowercase digits per byte, high nibble first
HexEncode(bs) ==
    [i \in 1..(2 * Len(bs)) |->
        IF i % 2 = 1 THEN LowerDigits[(bs[(i + 1) \div 2] \div 16) + 1]
        ELSE LowerDigits[(bs[i \div 2] % 16) + 1]]

\* the value of one hex digit as hex::decode reads it (both cases), -1 if none
HexVal(c) ==
    IF \E i \in 1..16 : LowerDigits[i] = c
    THEN (CHOOSE i \in 1..16 : LowerDigits[i] = c) - 1
    ELSE IF \E i \in 1..16 : UpperDigits[i] = c
         THEN (CHOOSE i \in 1..16 : UpperDigits[i] = c) - 1
         ELSE -1

\* BlockHash::encode_hex: the hash's bytes reversed, as lowercase hex
encode_hex(hash) == HexEncode(Reverse(hash))

\* BlockHash::from_hex: 64 hex digits of either case, bytes reversed; or an error
from_hex(s) ==
    IF Len(s) # HEX_SIZE \/ \E i \in 1..Len(s) : HexVal(s[i]) = -1
    THEN [ok |-> FALSE, hash |-> <<>>]
    ELSE [ok |-> TRUE,
          hash |-> Reverse([i \in 1..HASH_SIZE |->
                               16 * HexVal(s[2 * i - 1]) + HexVal(s[2 * i])])]

ToUpper(s) ==
    [i \in 1..Len(s) |-> IF HexVal(s[i]) >= 0 THEN UpperDigits[HexVal(s[i]) + 1] ELSE s[i]]

(***************************************************************************)
(* Paths (std::path::Path on the last component).                          *)
(***************************************************************************)
BIN == <<"b", "i", "n">>
DOT == <<".">>

\* position of the last '.' of a file name, 0 if none
LastDot(name) ==
    IF \E i \in 1..Len(name) : name[i] = "."
    THEN CHOOSE i \in 1..Len(name) :
            name[i] = "." /\ \A j \in (i + 1)..Len(name) : name[j] # "."
    ELSE 0

\* Path::extension: None without an embedded '.', or with only a leading one
Extension(path) ==
    LET name == path[Len(path)] d == LastDot(name) IN
    IF d <= 1 THEN [some |-> FALSE, v |-> <<>>]
    ELSE [some |-> TRUE, v |-> SubSeq(name, d + 1, Len(name))]

\* Path::file_stem: the file name up to its last embedded '.'
FileStem(path) ==
    LET name == path[Len(path)] d == LastDot(name) IN
    IF d <= 1 THEN name ELSE SubSeq(name, 1, d - 1)

\* PathBuf::set_extension / Path::with_extension
SetExtension(path, ext) ==
    [path EXCEPT ![Len(path)] = FileStem(path) \o DOT \o ext]

Parent(path) == SubSeq(path, 1, Len(path) - 1)

\* the root directory the archive was constructed with
root_path == << <<"r">> >>

\* get_path_from_hash with the two shard directories taken from the wrong end
GetPathFromHashHead(hash) ==
    LET s == encode_hex(hash) IN
    SetExtension(root_path \o <<Slice(s, 0, 2), Slice(s, 2, 4), s>>, BIN)

\* get_path_from_hash that names the file by the four shard characters alone
GetPathFromHashShardName(hash) ==
    LET s == encode_hex(hash) IN
    SetExtension(root_path \o <<Slice(s, 62, HEX_SIZE), Slice(s, 60, 62), Slice(s, 60, HEX_SIZE)>>,
                 BIN)

\* get_path_from_hash: root / s[62..] / s[60..62] / s.bin
get_path_from_hash(hash) ==
    LET s == encode_hex(hash) IN
    SetExtension(root_path \o <<Slice(s, 62, HEX_SIZE), Slice(s, 60, 62), s>>, BIN)

(***************************************************************************)
(* The hashes and byte sequences the callers use.                          *)
(***************************************************************************)
Zeros(n) == [i \in 1..n |-> 0]

\* the hash whose hex form ends in hex(b3) hex(b2) hex(b1)
MkHash(b1, b2, b3) == <<b1, b2, b3>> \o Zeros(HASH_SIZE - 3)

H1 == MkHash(49, 197, 0)     \* ...00c531
H2 == MkHash(49, 171, 0)     \* ...00ab31: shares the first shard directory with H1
H3 == MkHash(49, 197, 1)     \* ...01c531: shares both shard directories with H1
Hashes == {H1, H2, H3}

\* the hashes the callers of store_block use
StoreHashes == {H1, H2}

\* get_path_from_hash on the hashes in use, computed once
PathMemo == [h \in Hashes |-> get_path_from_hash(h)]
path_of(hash) == PathMemo[hash]

Procs == {"p1", "p2"}

\* the byte each caller fills its blocks with, to tell their contents apart
ByteOf(p) == IF p = "p1" THEN 1 ELSE 2

\* the byte sequences caller p stores: up to MaxBlobLen of its bytes
Blobs(p) == {[i \in 1..n |-> ByteOf(p)] : n \in 0..MaxBlobLen}

(***************************************************************************)
(* The filesystem (tokio::fs), on the state <<dirs, files>>.               *)
(***************************************************************************)
Prefixes(path) == {SubSeq(path, 1, n) : n \in 1..Len(path)}
ProperPrefixes(path) == {SubSeq(path, 1, n) : n \in 1..(Len(path) - 1)}

IsFile(d, f, path) == path \in DOMAIN f
IsDir(d, f, path) == path \in d

\* the std::io::ErrorKind of a path lookup, "" when the path resolves
LookupError(d, f, path) ==
    IF \E q \in ProperPrefixes(path) : IsFile(d, f, q) THEN "NotADirectory"
    ELSE IF IsFile(d, f, path) \/ IsDir(d, f, path) THEN ""
    ELSE "NotFound"

\* tokio::fs::metadata: the length of what is at path, or the error kind
Metadata(d, f, path) ==
    LET e == LookupError(d, f, path) IN
    IF e # "" THEN [ok |-> FALSE, kind |-> e, len |-> 0]
    ELSE [ok |-> TRUE, kind |-> "",
          len |-> IF IsFile(d, f, path) THEN Len(f[path]) ELSE 0]

\* File::open for reading: the content the reader yields, or the error kind
FileOpen(d, f, path) ==
    LET e == LookupError(d, f, path) IN
    IF e # "" THEN [ok |-> FALSE, kind |-> e, data |-> <<>>]
    ELSE [ok |-> TRUE, kind |-> "", data |-> IF IsFile(d, f, path) THEN f[path] ELSE <<>>]

\* tokio::fs::create_dir_all: the directories afterwards, or the error kind
CreateDirAll(d, f, path) ==
    IF \E q \in Prefixes(path) : IsFile(d, f, q)
    THEN [ok |-> FALSE, kind |-> "NotADirectory", dirs |-> d]
    ELSE [ok |-> TRUE, kind |-> "", dirs |-> d \cup Prefixes(path)]

\* a function with one more (or one replaced) mapping
Put(f, k, v) == [x \in DOMAIN f \cup {k} |-> IF x = k THEN v ELSE f[x]]

\* File::create: create or truncate the file at path
FileCreate(d, f, path) ==
    IF IsDir(d, f, path) THEN [ok |-> FALSE, kind |-> "IsADirectory", files |-> f]
    ELSE IF ~IsDir(d, f, Parent(path))
         THEN [ok |-> FALSE,
               kind |-> IF IsFile(d, f, Parent(path)) THEN "NotADirectory" ELSE "NotFound",
               files |-> f]
    ELSE [ok |-> TRUE, kind |-> "", files |-> Put(f, path, <<>>)]

\* a write of bytes at a file offset through an open handle: bytes past the end
\* extend the file, a gap before the offset reads as zeros
WriteAt(content, off, bytes) ==
    [i \in 1..(IF off + Len(bytes) > Len(content) THEN off + Len(bytes) ELSE Len(content)) |->
        IF i > off /\ i <= off + Len(bytes) THEN bytes[i - off]
        ELSE IF i <= Len(content) THEN content[i]
        ELSE 0]

(***************************************************************************)
(* Results (result.rs): Ok, or one of the kinds of Error.                  *)
(***************************************************************************)
Ok(v) == [kind |-> "Ok", val |-> v]
Err(k) == [kind |-> k, val |-> <<>>]
\* From<std::io::Error> for Error
IoError(k) == [kind |-> "IoError", val |-> k]


(***************************************************************************)
(* Reading from an open file (tokio::io::AsyncReadExt).                    *)
(***************************************************************************)
\* read_exact of n bytes at position pos: the bytes, or UnexpectedEof
ReadExact(data, pos, n) ==
    IF pos + n > Len(data) THEN [ok |-> FALSE, bytes |-> <<>>, n |-> 0]
    ELSE [ok |-> TRUE, bytes |-> SubSeq(data, pos + 1, pos + n), n |-> n]

\* A 64-bit integer is its sign and the 8 little-endian bytes of its magnitude.
\* an unsigned value of up to 8 little-endian bytes, cast `as i64` losslessly
Unsigned(bytes) == [neg |-> FALSE, mag |-> bytes \o Zeros(8 - Len(bytes))]

RECURSIVE AddOne(_)
AddOne(bs) ==
    IF bs = <<>> THEN <<>>
    ELSE IF Head(bs) = 255 THEN <<0>> \o AddOne(Tail(bs))
    ELSE <<Head(bs) + 1>> \o Tail(bs)

\* u64 `as i64`: the same 64 bits read as two's complement
U64AsI64(b8) ==
    IF b8[8] < 128 THEN [neg |-> FALSE, mag |-> b8]
    ELSE [neg |-> TRUE, mag |-> AddOne([i \in 1..8 |-> 255 - b8[i]])]

(***************************************************************************)
(* The single-block read operations of the archive, on the current         *)
(* filesystem.                                                             *)
(***************************************************************************)
\* a classification that forgets the NotFound case
NotFoundAsIoError(kind, absent) == IoError(kind)

\* a classification that reports every failed open or stat as absence
AnyErrorAsAbsent(kind, absent) == absent

\* the std::io error of a failed open or stat, as the operations classify it
NotFoundOr(kind, absent) == IF kind = "NotFound" THEN absent ELSE IoError(kind)

get_block(hash) ==
    LET o == FileOpen(dirs, files, path_of(hash)) IN
    IF o.ok THEN Ok(o.data) ELSE NotFoundOr(o.kind, Err("BlockNotFound"))

\* tokio::fs::read, then Block::new of the codec, which accepts the bytes or not
get_block_full(hash, decodes) ==
    LET o == FileOpen(dirs, files, path_of(hash)) IN
    IF ~o.ok THEN NotFoundOr(o.kind, Err("BlockNotFound"))
    ELSE IF ~decodes THEN Err("BitcoinSVError")
    ELSE Ok(o.data)

block_exists(hash) ==
    LET m == Metadata(dirs, files, path_of(hash)) IN
    IF m.ok THEN Ok(TRUE) ELSE NotFoundOr(m.kind, Ok(FALSE))

block_size(hash) ==
    LET m == Metadata(dirs, files, path_of(hash)) IN
    IF m.ok THEN Ok(m.len) ELSE NotFoundOr(m.kind, Err("BlockNotFound"))

\* the compact-size value after the marker byte n0, read from data at pos
CompactSize(data, pos, n0) ==
    LET w == IF n0 = 255 THEN 8 ELSE IF n0 = 254 THEN 4 ELSE IF n0 = 253 THEN 2 ELSE 0
        r == ReadExact(data, pos, w)
    IN  IF w = 0 THEN Ok(Unsigned(<<n0>>))
        ELSE IF ~r.ok THEN IoError("UnexpectedEof")
        ELSE IF w = 8 THEN Ok(U64AsI64(r.bytes))
        ELSE Ok(Unsigned(r.bytes))

block_tx_count(hash) ==
    LET o == FileOpen(dirs, files, path_of(hash))
        n0 == ReadExact(o.data, HEADER_SIZE, 1)
    IN  IF ~o.ok THEN NotFoundOr(o.kind, Err("BlockNotFound"))
        ELSE IF ~n0.ok THEN IoError("UnexpectedEof")
        ELSE CompactSize(o.data, HEADER_SIZE + 1, n0.bytes[1])

block_header(hash) ==
    LET o == FileOpen(dirs, files, path_of(hash))
        t == ReadExact(o.data, 0, HEADER_SIZE)
    IN  IF ~o.ok THEN NotFoundOr(o.kind, Err("BlockNotFound"))
        ELSE IF ~t.ok THEN IoError("UnexpectedEof")
        ELSE IF t.n < HEADER_SIZE THEN Err("NotEnoughData")
        ELSE Ok(t.bytes)

\* get_bytes_from_block that reads from the start of the file, without the seek
GetBytesNoSeek(hash, offset, length) ==
    LET o == FileOpen(dirs, files, path_of(hash))
        r == ReadExact(o.data, 0, length)
    IN  IF ~o.ok THEN NotFoundOr(o.kind, Err("BlockNotFound"))
        ELSE IF ~r.ok THEN IoError("UnexpectedEof")
        ELSE Ok(r.bytes)

\* file.seek(SeekFrom::Start(offset)); file.read_exact(&mut vec![0; length])
get_bytes_from_block(hash, offset, length) ==
    LET o == FileOpen(dirs, files, path_of(hash))
        r == ReadExact(o.data, offset, length)
    IN  IF ~o.ok THEN NotFoundOr(o.kind, Err("BlockNotFound"))
        ELSE IF ~r.ok THEN IoError("UnexpectedEof")
        ELSE Ok(r.bytes)


(***************************************************************************)
(* store_block, one action per await of the call.  task[p].solo records    *)
(* (history) that no other store_block call for the same hash overlapped   *)
(* this one.                                                               *)
(***************************************************************************)
IdleTask ==
    [pc |-> "idle", hash |-> <<>>, blob |-> <<>>, off |-> 0, res |-> Err("none"),
     solo |-> TRUE]

InFlight(t) == t.pc \notin {"idle", "done"}

Finish(p, r) == task' = [task EXCEPT ![p].pc = "done", ![p].res = r]

\* a caller invokes store_block(hash, blob)
StoreCall(p, hash, blob) ==
    /\ ~InFlight(task[p])
    /\ task' = [q \in Procs |->
                   IF q = p
                   THEN [pc |-> "check", hash |-> hash, blob |-> blob, off |-> 0,
                         res |-> Err("pending"),
                         solo |-> \A o \in Procs \ {p} :
                                     ~(InFlight(task[o]) /\ task[o].hash = hash)]
                   ELSE IF InFlight(task[q]) /\ task[q].hash = hash
                        THEN [task[q] EXCEPT !.solo = FALSE]
                        ELSE task[q]]
    /\ stored' = stored \cup {hash}
    /\ UNCHANGED <<dirs, files, scan, chan, stream, call>>

\* store_block that goes on to write although the entry exists
StoreCheckNoGuard(p) ==
    /\ task[p].pc = "check"
    /\ task' = [task EXCEPT ![p].pc = "mkdir"]
    /\ UNCHANGED <<dirs, files, scan, chan, stream, call, stored>>

\* store_block whose check creates the file in the same step when it is absent
StoreCheckAndCreate(p) ==
    /\ task[p].pc = "check"
    /\ LET e == block_exists(task[p].hash)
           path == path_of(task[p].hash)
       IN  IF e.kind # "Ok" THEN Finish(p, e) /\ UNCHANGED <<dirs, files>>
           ELSE IF e.val THEN Finish(p, Err("BlockExists")) /\ UNCHANGED <<dirs, files>>
           ELSE /\ dirs' = dirs \cup Prefixes(Parent(path))
                /\ files' = Put(files, path, <<>>)
                /\ task' = [task EXCEPT ![p].pc = "copy"]
    /\ UNCHANGED <<scan, chan, stream, call, stored>>

\* if self.block_exists(block_hash).await? { return Err(Error::BlockExists); }
StoreCheck(p) ==
    /\ task[p].pc = "check"
    /\ LET e == block_exists(task[p].hash) IN
       IF e.kind # "Ok" THEN Finish(p, e)
       ELSE IF e.val THEN Finish(p, Err("BlockExists"))
       ELSE task' = [task EXCEPT ![p].pc = "mkdir"]
    /\ UNCHANGED <<dirs, files, scan, chan, stream, call, stored>>

\* tokio::fs::create_dir_all(path.parent().unwrap()).await?
StoreMkdir(p) ==
    /\ task[p].pc = "mkdir"
    /\ LET r == CreateDirAll(dirs, files, Parent(path_of(task[p].hash))) IN
       IF r.ok
       THEN /\ dirs' = r.dirs
            /\ task' = [task EXCEPT ![p].pc = "create"]
       ELSE /\ Finish(p, IoError(r.kind))
            /\ UNCHANGED dirs
    /\ UNCHANGED <<files, scan, chan, stream, call, stored>>

\* let mut file = File::create(path).await?
StoreCreate(p) ==
    /\ task[p].pc = "create"
    /\ LET r == FileCreate(dirs, files, path_of(task[p].hash)) IN
       IF r.ok
       THEN /\ files' = r.files
            /\ task' = [task EXCEPT ![p].pc = "copy"]
       ELSE /\ Finish(p, IoError(r.kind))
            /\ UNCHANGED files
    /\ UNCHANGED <<dirs, scan, chan, stream, call, stored>>

\* tokio::io::copy(block, &mut file): the next chunk goes to the file at the
\* handle's offset
StoreCopy(p) ==
    /\ task[p].pc = "copy"
    /\ task[p].off < Len(task[p].blob)
    /\ \E n \in 1..(Len(task[p].blob) - task[p].off) :
          LET path == path_of(task[p].hash)
              chunk == SubSeq(task[p].blob, task[p].off + 1, task[p].off + n)
          IN  /\ files' = Put(files, path, WriteAt(files[path], task[p].off, chunk))
              /\ task' = [task EXCEPT ![p].off = task[p].off + n]
    /\ UNCHANGED <<dirs, scan, chan, stream, call, stored>>

\* store_block that returns Ok(()) without waiting for the copy to end
StoreReturnUnfinished(p) ==
    /\ task[p].pc = "copy"
    /\ Finish(p, Ok(<<>>))
    /\ UNCHANGED <<dirs, files, scan, chan, stream, call, stored>>

\* the reader is at its end: copy returns, store_block returns Ok(())
StoreReturn(p) ==
    /\ task[p].pc = "copy"
    /\ task[p].off = Len(task[p].blob)
    /\ Finish(p, Ok(<<>>))
    /\ UNCHANGED <<dirs, files, scan, chan, stream, call, stored>>


(***************************************************************************)
(* block_list: the spawned scan (block_list_bgrnd), its channel and the    *)
(* stream the caller polls.  scan[s].sent records (history) the files      *)
(* whose hash the scan handed to the channel.                              *)
(***************************************************************************)
Streams == {"s1", "s2"}

NoScan ==
    [state |-> "none", pc |-> "pop", stack |-> <<>>, dirent |-> {}, msg |-> <<>>,
     from |-> <<>>, aborted |-> FALSE, res |-> Err("none"), sent |-> {}]
\* cap is the capacity the channel was created with
NoChan == [buf |-> <<>>, cap |-> ChanCap, rxClosed |-> FALSE, txClosed |-> FALSE]
NoStream == [state |-> "none", got |-> <<>>]

\* the task is spawned and has neither returned nor been cancelled
Running(s) == scan[s].state = "run"

\* the entries a directory listing of path yields
Children(path) == {q \in dirs \cup DOMAIN files : Len(q) = Len(path) + 1 /\ Parent(q) = path}

\* the path the scan requires of a file with stem f_name (a parsed hash name)
correct_path(f_name) ==
    SetExtension(root_path \o <<Slice(f_name, 62, Len(f_name)), Slice(f_name, 60, 62), f_name>>,
                 BIN)

\* the scan's filter on a file: the hash to send, or nothing
Accept(path) ==
    LET ext == Extension(path)
        f_name == FileStem(path)
        h == from_hex(f_name)
    IN  IF ~ext.some \/ ext.v # BIN THEN [some |-> FALSE, hash |-> <<>>]
        ELSE IF ~h.ok THEN [some |-> FALSE, hash |-> <<>>]
        ELSE IF path # correct_path(f_name) THEN [some |-> FALSE, hash |-> <<>>]
        ELSE [some |-> TRUE, hash |-> h.hash]

(***************************************************************************)
(* The directory trees scanned: entries of the archive plus files it did   *)
(* not write.                                                              *)
(***************************************************************************)
Str(h) == encode_hex(h)

\* files the archive did not write
ForeignFiles ==
    { root_path \o <<Str(H1) \o DOT \o BIN>>,                                   \* in the root
      root_path \o <<Slice(Str(H2), 62, 64), Slice(Str(H2), 60, 62), Str(H1) \o DOT \o BIN>>,
                                                                                \* in H2's shard
      Parent(path_of(H1)) \o <<Str(H1) \o <<".", "t", "x", "t">> >>, \* not .bin
      Parent(path_of(H1)) \o << <<"z", "z", ".", "b", "i", "n">> >>,  \* not a hash
      root_path \o << <<"R", "E", "A", "D", "M", "E">> >>,                       \* no extension
      correct_path(ToUpper(Str(H1))) }                                          \* upper-case hex

TreeFiles(valid, foreign) == {path_of(h) : h \in valid} \cup foreign
TreeDirs(fs) == {root_path} \cup UNION {Prefixes(Parent(f)) : f \in fs}

\* a regular file where the second shard directory of H2 would be
ShardBlocker == Parent(path_of(H2))

\* the scan's filter on the files a tree can hold, computed once
AcceptMemo == [f \in TreeFiles(Hashes, ForeignFiles) |-> Accept(f)]
accept_of(path) == AcceptMemo[path]

\* the task ends (returns or is dropped): its Sender is dropped with it
ScanEnd(s, state, r) ==
    /\ scan' = [scan EXCEPT ![s].state = state, ![s].res = r, ![s].stack = <<>>,
                            ![s].dirent = {}, ![s].msg = <<>>, ![s].from = <<>>,
                            ![s].pc = "pop"]
    /\ chan' = [chan EXCEPT ![s].txClosed = TRUE]

\* block_list(): a fresh channel (of MAX_BLOCKS, here any capacity from 1 to
\* ChanCap), the scan spawned on the root, the stream returned
BlockList(s) ==
    /\ stream[s].state = "none"
    /\ scan' = [scan EXCEPT ![s] = [NoScan EXCEPT !.state = "run", !.stack = <<root_path>>]]
    /\ \E cap \in 1..ChanCap : chan' = [chan EXCEPT ![s] = [NoChan EXCEPT !.cap = cap]]
    /\ stream' = [stream EXCEPT ![s].state = "open"]
    /\ UNCHANGED <<dirs, files, task, call, stored>>

\* while let Some(path) = stack.pop() { let dir = read_dir(path).await?; ... } Ok(())
ScanPop(s) ==
    /\ Running(s)
    /\ scan[s].pc = "pop"
    /\ IF scan[s].stack = <<>> THEN ScanEnd(s, "finished", Ok(<<>>))
       ELSE LET path == scan[s].stack[Len(scan[s].stack)]
                e == LookupError(dirs, files, path)
            IN  IF e # "" \/ ~IsDir(dirs, files, path)
                THEN ScanEnd(s, "finished", IoError(IF e # "" THEN e ELSE "NotADirectory"))
                ELSE /\ scan' = [scan EXCEPT
                                    ![s].stack = SubSeq(scan[s].stack, 1, Len(scan[s].stack) - 1),
                                    ![s].dirent = Children(path),
                                    ![s].pc = "next"]
                     /\ UNCHANGED chan
    /\ UNCHANGED <<dirs, files, task, stream, call, stored>>

\* while let Some(entry) = stream.next().await { ... }: one entry, in any order,
\* up to the send or the continue
ScanNext(s) ==
    /\ Running(s)
    /\ scan[s].pc = "next"
    /\ IF scan[s].dirent = {} THEN scan' = [scan EXCEPT ![s].pc = "pop"]
       ELSE \E path \in scan[s].dirent :
               LET a == accept_of(path) IN
               IF IsDir(dirs, files, path)
               THEN scan' = [scan EXCEPT ![s].dirent = scan[s].dirent \ {path},
                                         ![s].stack = Append(scan[s].stack, path)]
               ELSE IF a.some
               THEN scan' = [scan EXCEPT ![s].dirent = scan[s].dirent \ {path},
                                         ![s].msg = a.hash, ![s].from = path,
                                         ![s].pc = "send"]
               ELSE scan' = [scan EXCEPT ![s].dirent = scan[s].dirent \ {path}]
    /\ UNCHANGED <<dirs, files, task, chan, stream, call, stored>>

\* a send that still queues the hash after the receiver is gone
ScanSendIgnoreClosed(s) ==
    /\ Running(s)
    /\ scan[s].pc = "send"
    /\ Len(chan[s].buf) < chan[s].cap
    /\ chan' = [chan EXCEPT ![s].buf = Append(chan[s].buf, scan[s].msg)]
    /\ scan' = [scan EXCEPT ![s].pc = "next", ![s].msg = <<>>, ![s].from = <<>>,
                            ![s].sent = scan[s].sent \cup {scan[s].from}]
    /\ UNCHANGED <<dirs, files, task, stream, call, stored>>

\* a send that does not wait: it drops the hash when the channel is full
ScanSendDropWhenFull(s) ==
    /\ Running(s)
    /\ scan[s].pc = "send"
    /\ IF chan[s].rxClosed THEN ScanEnd(s, "finished", Ok(<<>>))
       ELSE IF Len(chan[s].buf) < chan[s].cap
       THEN /\ chan' = [chan EXCEPT ![s].buf = Append(chan[s].buf, scan[s].msg)]
            /\ scan' = [scan EXCEPT ![s].pc = "next", ![s].msg = <<>>, ![s].from = <<>>,
                                    ![s].sent = scan[s].sent \cup {scan[s].from}]
       ELSE /\ scan' = [scan EXCEPT ![s].pc = "next", ![s].msg = <<>>, ![s].from = <<>>]
            /\ UNCHANGED chan
    /\ UNCHANGED <<dirs, files, task, stream, call, stored>>

\* match transmit.send(h).await { Ok(_) => {}, Err(_) => return Ok(()) }:
\* fails once the receiver is dropped, waits while the channel is full
ScanSend(s) ==
    /\ Running(s)
    /\ scan[s].pc = "send"
    /\ IF chan[s].rxClosed THEN ScanEnd(s, "finished", Ok(<<>>))
       ELSE /\ Len(chan[s].buf) < chan[s].cap
            /\ chan' = [chan EXCEPT ![s].buf = Append(chan[s].buf, scan[s].msg)]
            /\ scan' = [scan EXCEPT ![s].pc = "next", ![s].msg = <<>>, ![s].from = <<>>,
                                    ![s].sent = scan[s].sent \cup {scan[s].from}]
    /\ UNCHANGED <<dirs, files, task, stream, call, stored>>

\* an aborted task is dropped at an await instead of being resumed
ScanCancelled(s) ==
    /\ Running(s)
    /\ scan[s].aborted
    /\ ScanEnd(s, "cancelled", Err("cancelled"))
    /\ UNCHANGED <<dirs, files, task, stream, call, stored>>

\* a poll_next that stays Pending on an empty channel whose sender is gone
PollNextNoEnd(s) ==
    /\ stream[s].state = "open"
    /\ chan[s].buf # <<>>
    /\ stream' = [stream EXCEPT ![s].got = Append(stream[s].got, Head(chan[s].buf))]
    /\ chan' = [chan EXCEPT ![s].buf = Tail(chan[s].buf)]
    /\ UNCHANGED <<dirs, files, task, scan, call, stored>>

\* poll_next -> Receiver::poll_recv: the next hash, or None once the channel is
\* empty and its sender is gone (Pending otherwise: no step)
PollNext(s) ==
    /\ stream[s].state = "open"
    /\ IF chan[s].buf # <<>>
       THEN /\ stream' = [stream EXCEPT ![s].got = Append(stream[s].got, Head(chan[s].buf))]
            /\ chan' = [chan EXCEPT ![s].buf = Tail(chan[s].buf)]
       ELSE /\ chan[s].txClosed
            /\ stream' = [stream EXCEPT ![s].state = "ended"]
            /\ UNCHANGED chan
    /\ UNCHANGED <<dirs, files, task, scan, call, stored>>

\* Drop::drop of the stream: abort the task unless it is finished
StreamDrop(s) ==
    /\ stream[s].state \in {"open", "ended"}
    /\ stream' = [stream EXCEPT ![s].state = "dropping"]
    /\ scan' = [scan EXCEPT ![s].aborted = scan[s].aborted \/ Running(s)]
    /\ UNCHANGED <<dirs, files, task, chan, call, stored>>

\* the stream's fields are dropped after Drop::drop: the Receiver closes the
\* channel and discards what it holds
ReceiverDrop(s) ==
    /\ stream[s].state = "dropping"
    /\ stream' = [stream EXCEPT ![s].state = "dropped"]
    /\ chan' = [chan EXCEPT ![s].rxClosed = TRUE, ![s].buf = <<>>]
    /\ UNCHANGED <<dirs, files, task, scan, call, stored>>


(***************************************************************************)
(* Spec: callers storing blocks into an archive that starts empty.         *)
(***************************************************************************)
EmptyFiles == [x \in {} |-> <<>>]
NoCall == [op |-> "none", hash |-> <<>>, arg |-> <<>>, res |-> Err("none")]

Quiet ==
    /\ task = [p \in Procs |-> IdleTask]
    /\ scan = [s \in Streams |-> NoScan]
    /\ chan = [s \in Streams |-> NoChan]
    /\ stream = [s \in Streams |-> NoStream]
    /\ call = NoCall

Init ==
    /\ dirs = {root_path}
    /\ files = EmptyFiles
    /\ stored = {}
    /\ Quiet

Next ==
    \E p \in Procs :
        \/ \E hash \in StoreHashes, blob \in Blobs(p) : StoreCall(p, hash, blob)
        \/ StoreCheck(p)
        \/ StoreMkdir(p)
        \/ StoreCreate(p)
        \/ StoreCopy(p)
        \/ StoreReturn(p)

Spec == Init /\ [][Next]_vars

(***************************************************************************)
(* SpecScan: one block_list call over a directory tree that does not       *)
(* change: entries of the archive plus files it did not write.             *)
(***************************************************************************)
\* a root directory holding a tree, or a root that is a regular file (new accepts
\* any path whose metadata can be read)
InitScan ==
    /\ \/ \E valid \in SUBSET Hashes, foreign \in SUBSET ForeignFiles :
             /\ Cardinality(foreign) <= MaxForeign
             /\ files = [f \in TreeFiles(valid, foreign) |-> <<1>>]
             /\ dirs = TreeDirs(TreeFiles(valid, foreign))
             /\ stored = valid
       \/ /\ files = [f \in {root_path} |-> <<1>>]
          /\ dirs = {}
          /\ stored = {}
    /\ Quiet

ScanStep(s) == ScanPop(s) \/ ScanNext(s) \/ ScanSend(s) \/ ScanCancelled(s)

NextScan ==
    \/ BlockList("s1")
    \/ ScanPop("s1")
    \/ ScanNext("s1")
    \/ ScanSend("s1")
    \/ ScanCancelled("s1")
    \/ PollNext("s1")
    \/ StreamDrop("s1")
    \/ ReceiverDrop("s1")

SpecScan == InitScan /\ [][NextScan]_vars

\* the runtime keeps polling a spawned task that can make progress, and a drop
\* runs to its end
SpecScanFair ==
    InitScan /\ [][NextScan]_vars /\ WF_vars(ScanStep("s1")) /\ WF_vars(ReceiverDrop("s1"))

\* as SpecScanFair, with a consumer that keeps polling the stream while it holds it
SpecScanPoll ==
    InitScan /\ [][NextScan]_vars /\ WF_vars(ScanStep("s1")) /\ WF_vars(PollNext("s1"))

(***************************************************************************)
(* SpecScan2: two block_list calls at the same time over one tree that     *)
(* does not change: entries under H1 and H2 and a file named in upper case.*)
(***************************************************************************)
InitScan2 ==
    /\ \E valid \in SUBSET StoreHashes, foreign \in SUBSET {correct_path(ToUpper(Str(H1)))} :
          /\ Cardinality(valid) + Cardinality(foreign) <= MaxScan2Files
          /\ files = [f \in TreeFiles(valid, foreign) |-> <<1>>]
          /\ dirs = TreeDirs(TreeFiles(valid, foreign))
          /\ stored = valid
    /\ Quiet

NextScan2 ==
    \E s \in Streams :
        \/ BlockList(s)
        \/ ScanPop(s)
        \/ ScanNext(s)
        \/ ScanSend(s)
        \/ ScanCancelled(s)
        \/ PollNext(s)
        \/ StreamDrop(s)
        \/ ReceiverDrop(s)

SpecScan2 == InitScan2 /\ [][NextScan2]_vars

(***************************************************************************)
(* SpecFull: one caller applies store_block or store_block_full once to an *)
(* archive in one of several starting states.  call records the operation, *)
(* the block and the filesystem the call started from.                     *)
(*                                                                         *)
(* A tokio File hands each write to a blocking thread and returns; the     *)
(* next write, and a flush, wait for the write in flight.  io::copy ends   *)
(* with a flush of the file, write_all does not: in store_block_full the   *)
(* last write can still be in flight when the call returns.  The bytes     *)
(* handed over are task[p].off, the bytes in the file are those landed.    *)
(***************************************************************************)
\* block.header()?.hash() of the codec: a function of the block's leading bytes
HeaderHash(raw) == IF raw = <<>> \/ raw[1] = 1 THEN H1 ELSE H2

\* the blocks handed to the two operations (block.raw)
FullBlocks == UNION {Blobs(p) : p \in Procs}

\* store_block run alone from filesystem <<d, f>> to its return: the result and
\* the filesystem it leaves
StoreOutcome(d, f, hash, blob) ==
    LET path == path_of(hash)
        m == Metadata(d, f, path)
        e == IF m.ok THEN Ok(TRUE) ELSE NotFoundOr(m.kind, Ok(FALSE))
        mk == CreateDirAll(d, f, Parent(path))
        cr == FileCreate(mk.dirs, f, path)
    IN  IF e.kind # "Ok" THEN [res |-> e, dirs |-> d, files |-> f]
        ELSE IF e.val THEN [res |-> Err("BlockExists"), dirs |-> d, files |-> f]
        ELSE IF ~mk.ok THEN [res |-> IoError(mk.kind), dirs |-> d, files |-> f]
        ELSE IF ~cr.ok THEN [res |-> IoError(cr.kind), dirs |-> mk.dirs, files |-> f]
        ELSE [res |-> Ok(<<>>), dirs |-> mk.dirs, files |-> Put(cr.files, path, blob)]

InitFull ==
    /\ \E entries \in SUBSET StoreHashes, blockers \in SUBSET {ShardBlocker} :
          /\ ~(H2 \in entries /\ blockers # {})
          /\ files = [f \in {path_of(h) : h \in entries} \cup blockers |-> <<9>>]
          /\ dirs = TreeDirs({path_of(h) : h \in entries} \cup blockers)
          /\ stored = entries
    /\ Quiet

\* the caller invokes store_block(HeaderHash(raw), raw) or store_block_full(block)
FullStart(p, op, raw) ==
    /\ task[p].pc = "idle"
    /\ call.op = "none"
    /\ call' = [op |-> op, hash |-> HeaderHash(raw),
                arg |-> [dirs |-> dirs, files |-> files, raw |-> raw], res |-> Err("pending")]
    /\ task' = [task EXCEPT ![p] = [pc |-> "check", hash |-> HeaderHash(raw), blob |-> raw,
                                     off |-> 0, res |-> Err("pending"), solo |-> TRUE]]
    /\ stored' = stored \cup {HeaderHash(raw)}
    /\ UNCHANGED <<dirs, files, scan, chan, stream>>

\* tokio::io::copy of store_block: every chunk is in the file before the next,
\* and the flush at its end waits for the last
FullCopy(p) == call.op = "store_block" /\ StoreCopy(p)
FullCopyReturn(p) == call.op = "store_block" /\ StoreReturn(p)

\* file.write_all(&block.raw[..]): the next chunk is handed to the file once the
\* one before it has landed
FullWriteAll(p) ==
    /\ call.op = "store_block_full"
    /\ task[p].pc = "copy"
    /\ task[p].off < Len(task[p].blob)
    /\ Len(files[path_of(task[p].hash)]) = task[p].off
    /\ \E n \in 1..(Len(task[p].blob) - task[p].off) :
          task' = [task EXCEPT ![p].off = task[p].off + n]
    /\ UNCHANGED <<dirs, files, scan, chan, stream, call, stored>>

\* the blocking thread performs the write in flight, during the call or after it
FullWriteLands(p) ==
    /\ call.op = "store_block_full"
    /\ task[p].pc \in {"copy", "done"}
    /\ IsFile(dirs, files, path_of(task[p].hash))
    /\ task[p].off > 0
    /\ Len(files[path_of(task[p].hash)]) < task[p].off
    /\ LET path == path_of(task[p].hash)
           landed == Len(files[path])
       IN  files' = Put(files, path,
                        WriteAt(files[path], landed, SubSeq(task[p].blob, landed + 1, task[p].off)))
    /\ UNCHANGED <<dirs, task, scan, chan, stream, call, stored>>

\* write_all has handed over every byte: store_block_full returns Ok(())
FullWriteReturn(p) ==
    /\ call.op = "store_block_full"
    /\ task[p].pc = "copy"
    /\ task[p].off = Len(task[p].blob)
    /\ Finish(p, Ok(<<>>))
    /\ UNCHANGED <<dirs, files, scan, chan, stream, call, stored>>

NextFull ==
    \/ \E op \in {"store_block", "store_block_full"}, raw \in FullBlocks : FullStart("p1", op, raw)
    \/ StoreCheck("p1")
    \/ StoreMkdir("p1")
    \/ StoreCreate("p1")
    \/ FullCopy("p1")
    \/ FullCopyReturn("p1")
    \/ FullWriteAll("p1")
    \/ FullWriteLands("p1")
    \/ FullWriteReturn("p1")

SpecFull == InitFull /\ [][NextFull]_vars


(***************************************************************************)
(* SpecRead: the read operations applied to an archive holding one entry,  *)
(* under H1, whose content is a header followed by a compact-size field    *)
(* (whole or cut short) and possibly more.                                 *)
(***************************************************************************)
DecodeBytes == {0, 1, 128, 255}
HeaderBytes == [i \in 1..HEADER_SIZE |-> i]

\* byte strings of a given width after the marker: all of them up to 4 bytes, for 8
\* bytes those whose five middle bytes are equal; and ones a byte short
Field(w) ==
    IF w = 8
    THEN {<<a, b>> \o [i \in 1..5 |-> c] \o <<d>> : a, b, c, d \in DecodeBytes}
    ELSE [1..w -> DecodeBytes]
ShortField(w) == {[i \in 1..(w - 1) |-> c] : c \in DecodeBytes}

CompactFields ==
    {<<m>> : m \in {0, 5, 252}}
    \cup {<<253>> \o f : f \in Field(2) \cup ShortField(2)}
    \cup {<<254>> \o f : f \in Field(4) \cup ShortField(4)}
    \cup {<<255>> \o f : f \in Field(8) \cup ShortField(8)}

ReadBlobs ==
    {SubSeq(HeaderBytes, 1, n) : n \in {0, 1, HEADER_SIZE - 1, HEADER_SIZE}}
    \cup {HeaderBytes \o f \o rest : f \in CompactFields, rest \in {<<>>, <<9>>}}

ReadOffsets == {0, HEADER_SIZE - 1, HEADER_SIZE + 1}
ReadLengths == {0, 1, 2}

InitRead ==
    /\ \E blob \in ReadBlobs, blockers \in SUBSET {ShardBlocker} :
          files = [f \in {path_of(H1)} \cup blockers |->
                      IF f = path_of(H1) THEN blob ELSE <<>>]
    /\ dirs = TreeDirs({path_of(H1)})
    /\ stored = {H1}
    /\ Quiet

\* a caller applies one read operation and gets its result
Called(op, hash, arg, res) ==
    /\ call' = [op |-> op, hash |-> hash, arg |-> arg, res |-> res]
    /\ UNCHANGED <<dirs, files, task, scan, chan, stream, stored>>

CallGetBlock(hash) == Called("get_block", hash, <<>>, get_block(hash))
CallGetBlockFull(hash) ==
    \E decodes \in BOOLEAN : Called("get_block_full", hash, <<>>, get_block_full(hash, decodes))
CallBlockExists(hash) == Called("block_exists", hash, <<>>, block_exists(hash))
CallBlockSize(hash) == Called("block_size", hash, <<>>, block_size(hash))
CallBlockTxCount(hash) == Called("block_tx_count", hash, <<>>, block_tx_count(hash))
CallBlockHeader(hash) == Called("block_header", hash, <<>>, block_header(hash))
CallGetBytes(hash, offset, length) ==
    Called("get_bytes_from_block", hash, <<offset, length>>,
           get_bytes_from_block(hash, offset, length))

NextRead ==
    \E hash \in {H1, H2} :
        \/ CallGetBlock(hash)
        \/ CallGetBlockFull(hash)
        \/ CallBlockExists(hash)
        \/ CallBlockSize(hash)
        \/ CallBlockTxCount(hash)
        \/ CallBlockHeader(hash)
        \/ \E offset \in ReadOffsets, length \in ReadLengths : CallGetBytes(hash, offset, length)

SpecRead == InitRead /\ [][NextRead]_vars

(***************************************************************************)
(* SpecPath: get_path_from_hash applied to two hashes.                     *)
(***************************************************************************)
PathBytes == {0, 49, 197}
PathHashes ==
    {<<a, b, c>> \o Zeros(HASH_SIZE - 4) \o <<d>> : a, b, c \in PathBytes, d \in {0, 171}}

InitPath ==
    /\ \E h1, h2 \in PathHashes :
          call = [op |-> "input", hash |-> h1, arg |-> h2, res |-> Err("none")]
    /\ dirs = {root_path}
    /\ files = EmptyFiles
    /\ stored = {}
    /\ task = [p \in Procs |-> IdleTask]
    /\ scan = [s \in Streams |-> NoScan]
    /\ chan = [s \in Streams |-> NoChan]
    /\ stream = [s \in Streams |-> NoStream]

CallPath ==
    /\ call.op = "input"
    /\ call' = [call EXCEPT !.op = "get_path_from_hash",
                            !.res = Ok(<<get_path_from_hash(call.hash),
                                         get_path_from_hash(call.arg)>>)]
    /\ UNCHANGED <<dirs, files, task, scan, chan, stream, stored>>

NextPath == CallPath

SpecPath == InitPath /\ [][NextPath]_vars


(***************************************************************************)
(* SpecRoot: construction of the archive on a root that exists or not, a   *)
(* root that its owner removes while it is empty (the tests hand the       *)
(* archive a tempdir, removed when its owner drops it), and callers        *)
(* storing blocks through the constructed archive.                         *)
(***************************************************************************)
\* SimpleFileBasedBlockArchive::new: metadata of the root, Ok or the io error
new ==
    LET m == Metadata(dirs, files, root_path) IN
    IF m.ok THEN Ok(root_path) ELSE IoError(m.kind)

\* the archive has been constructed
Constructed == call.op = "new" /\ call.res.kind = "Ok"

CallNew ==
    /\ ~Constructed
    /\ Called("new", <<>>, <<>>, new)

\* the owner of the root directory removes it (it is empty)
RootRemoved ==
    /\ root_path \in dirs
    /\ Children(root_path) = {}
    /\ dirs' = dirs \ {root_path}
    /\ UNCHANGED <<files, task, scan, chan, stream, call, stored>>

\* store_block is a method of a constructed archive
RootStoreCall(p, hash, blob) ==
    /\ Constructed
    /\ StoreCall(p, hash, blob)

InitRoot ==
    /\ dirs \in {{}, {root_path}}
    /\ files = EmptyFiles
    /\ stored = {}
    /\ Quiet

NextRoot ==
    \/ CallNew
    \/ RootRemoved
    \/ \E p \in Procs :
          \/ \E hash \in StoreHashes, blob \in Blobs(p) : RootStoreCall(p, hash, blob)
          \/ StoreCheck(p)
          \/ StoreMkdir(p)
          \/ StoreCreate(p)
          \/ StoreCopy(p)
          \/ StoreReturn(p)

SpecRoot == InitRoot /\ [][NextRoot]_vars


(***************************************************************************)
(* Properties.                                                             *)
(***************************************************************************)
Range(seq) == {seq[i] : i \in 1..Len(seq)}

\* C1 (round trip): once store_block(H, B) has returned Ok and no other store of H
\* overlapped it, get_block(H) reads exactly B, block_exists(H) is true and
\* block_size(H) is len(B).
C1_RoundTrip ==
    \A p \in Procs :
        (task[p].pc = "done" /\ task[p].res.kind = "Ok" /\ task[p].solo) =>
            /\ get_block(task[p].hash).kind = "Ok"
            /\ get_block(task[p].hash).val = task[p].blob
            /\ block_exists(task[p].hash).kind = "Ok"
            /\ block_exists(task[p].hash).val
            /\ block_size(task[p].hash).kind = "Ok"
            /\ block_size(task[p].hash).val = Len(task[p].blob)

\* a store of a non-empty block has returned Ok while the other caller has stored too
C1_Witness ==
    \E p, q \in Procs :
        /\ p # q
        /\ task[p].pc = "done" /\ task[p].res.kind = "Ok" /\ task[p].solo
        /\ Len(task[p].blob) = MaxBlobLen
        /\ task[q].pc = "done" /\ task[q].res.kind = "Ok" /\ task[q].hash # task[p].hash

\* C2 (no overwrite): a store_block call that finds an entry under its hash ends
\* with BlockExists, and its step changes no file and no directory.
C2_NoOverwrite ==
    [][\A p \in Procs :
          ( /\ task[p].pc = "check"
            /\ block_exists(task[p].hash).kind = "Ok"
            /\ block_exists(task[p].hash).val
            /\ task'[p].pc # "check" )
          => /\ task'[p].pc = "done"
             /\ task'[p].res.kind = "BlockExists"
             /\ files' = files
             /\ dirs' = dirs]_vars

\* a second store under a hash, with other bytes, has failed with BlockExists and
\* the entry still holds the bytes of the first
C2_Witness ==
    \E p, q \in Procs :
        /\ p # q
        /\ task[p].pc = "done" /\ task[p].res.kind = "BlockExists"
        /\ task[q].pc = "done" /\ task[q].res.kind = "Ok" /\ task[q].hash = task[p].hash
        /\ task[q].solo
        /\ task[q].blob # <<>>
        /\ files[path_of(task[p].hash)] = task[q].blob

\* C3 (absence): for a hash store_block was never called with, get_block,
\* block_size, block_header and block_tx_count fail with BlockNotFound and
\* block_exists returns false, whatever was stored under other hashes.
C3_Absence ==
    \A h \in Hashes \ stored :
        /\ get_block(h).kind = "BlockNotFound"
        /\ block_size(h).kind = "BlockNotFound"
        /\ block_header(h).kind = "BlockNotFound"
        /\ block_tx_count(h).kind = "BlockNotFound"
        /\ block_exists(h).kind = "Ok"
        /\ ~block_exists(h).val

\* a never-stored hash whose two shard directories exist and hold another entry
C3_Witness ==
    /\ H3 \notin stored
    /\ Parent(path_of(H3)) \in dirs
    /\ path_of(H1) \in DOMAIN files
    /\ path_of(H2) \in DOMAIN files
    /\ get_block(H3).kind = "BlockNotFound"


\* the hashes that have an entry: a file at exactly the path of the hash
Entries == {h \in Hashes : IsFile(dirs, files, path_of(h))}

\* all that stream s has handed or can still hand to its consumer
Delivered(s) == Range(stream[s].got) \cup Range(chan[s].buf)

\* C4 (enumeration completeness and filtering): a block_list stream consumed to
\* its end over an unchanged tree has yielded exactly the hashes that have an
\* entry, each exactly once.
C4_Enumeration ==
    stream["s1"].state = "ended" =>
        /\ Range(stream["s1"].got) = Entries
        /\ Len(stream["s1"].got) = Cardinality(Entries)

\* C5 (misplaced-file invisibility): every file whose hash the scan hands on lies at
\* the path of that hash, and block_exists(H) is true only with a file at the path
\* of H.
C5_MisplacedInvisible ==
    /\ \A f \in scan["s1"].sent : f = path_of(from_hex(FileStem(f)).hash)
    /\ \A h \in Hashes :
          (block_exists(h).kind = "Ok" /\ block_exists(h).val) => h \in Entries

\* C6 (enumeration agrees with reads): every hash a block_list stream yields over
\* an unchanged tree has a file at the path get_path_from_hash gives, so
\* block_exists is true and get_block succeeds for it.
C6_ListedIsReadable ==
    \A h \in Delivered("s1") :
        /\ IsFile(dirs, files, path_of(h))
        /\ block_exists(h).kind = "Ok" /\ block_exists(h).val
        /\ get_block(h).kind = "Ok"

\* C7 (cancellation): once a block_list stream is dropped its scan eventually stops
\* running, and from the moment the stream is gone no hash enters its channel.
C7_Cancellation ==
    /\ [](stream["s1"].state \in {"dropping", "dropped"} => <>(~Running("s1")))
    /\ [][stream["s1"].state = "dropped" => chan'["s1"].buf = chan["s1"].buf]_vars

\* the stream was dropped with hashes still to come and its scan was cancelled
C7_Witness ==
    /\ stream["s1"].state = "dropped"
    /\ scan["s1"].state = "cancelled"
    /\ scan["s1"].sent # {}
    /\ Cardinality(scan["s1"].sent) < Cardinality(Entries)


\* the content of the entry the last operation was applied to
CalledData == files[path_of(call.hash)]
CalledOnEntry(op) == call.op = op /\ IsFile(dirs, files, path_of(call.hash))

\* the bytes a compact-size field with marker m takes after the marker
FieldWidth(m) == IF m = 255 THEN 8 ELSE IF m = 254 THEN 4 ELSE IF m = 253 THEN 2 ELSE 0

\* the bytes of an entry block_tx_count needs: header, marker and the marker's field
TxCountNeeds(data) ==
    IF Len(data) <= HEADER_SIZE THEN HEADER_SIZE + 1
    ELSE HEADER_SIZE + 1 + FieldWidth(data[HEADER_SIZE + 1])

\* C8 (insufficient data): on an entry shorter than the operation needs,
\* block_header, block_tx_count and get_bytes_from_block fail with NotEnoughData.
C8_NotEnoughData ==
    /\ (CalledOnEntry("block_header") /\ Len(CalledData) < HEADER_SIZE)
          => call.res.kind = "NotEnoughData"
    /\ (CalledOnEntry("block_tx_count") /\ Len(CalledData) < TxCountNeeds(CalledData))
          => call.res.kind = "NotEnoughData"
    /\ (CalledOnEntry("get_bytes_from_block") /\ Len(CalledData) < call.arg[1] + call.arg[2])
          => call.res.kind = "NotEnoughData"

\* C9 (compact-size decode): on an entry that holds the whole field, block_tx_count
\* returns the marker itself below 0xFD and otherwise the unsigned little-endian
\* value of the 2, 4 or 8 bytes after the marker.
C9_CompactSize ==
    (CalledOnEntry("block_tx_count") /\ Len(CalledData) >= TxCountNeeds(CalledData)) =>
        LET m == CalledData[HEADER_SIZE + 1]
            field == SubSeq(CalledData, HEADER_SIZE + 2, HEADER_SIZE + 1 + FieldWidth(m))
        IN  /\ call.res.kind = "Ok"
            /\ ~call.res.val.neg
            /\ call.res.val.mag = (IF FieldWidth(m) = 0 THEN <<m>> ELSE field)
                                     \o Zeros(8 - (IF FieldWidth(m) = 0 THEN 1 ELSE FieldWidth(m)))

\* C10 (path determinism): the path of a hash is root / last two hex characters /
\* the two before them / the 64 lowercase hex characters with ".bin", and two
\* hashes have the same path only if they are the same hash.
C10_PathDeterminism ==
    call.op = "get_path_from_hash" =>
        LET hex == encode_hex(call.hash)
            n == Len(hex)
        IN  /\ n = 64
            /\ \A i \in 1..n : hex[i] \in Range(LowerDigits)
            /\ call.res.val[1] =
                  root_path \o <<SubSeq(hex, n - 1, n), SubSeq(hex, n - 3, n - 2), hex \o DOT \o BIN>>
            /\ (call.res.val[1] = call.res.val[2]) <=> (call.hash = call.arg)

\* two different hashes in the same shard directories got different paths
C10_Witness ==
    /\ call.op = "get_path_from_hash"
    /\ call.hash # call.arg
    /\ Parent(call.res.val[1]) = Parent(call.res.val[2])
    /\ call.res.val[1] # call.res.val[2]
    /\ Len(call.res.val[1]) = Len(root_path) + 3


\* C11 (byte-range read): on an entry with content B, for an offset o and a length
\* l with o + l <= len(B), get_bytes_from_block returns l bytes, the i-th of them
\* B[o + i]; for l = 0 it returns the empty sequence.
C11_ByteRange ==
    ( /\ CalledOnEntry("get_bytes_from_block")
      /\ call.arg[1] + call.arg[2] <= Len(CalledData) ) =>
        /\ call.res.kind = "Ok"
        /\ Len(call.res.val) = call.arg[2]
        /\ \A i \in 1..call.arg[2] : call.res.val[i] = CalledData[call.arg[1] + i]

\* two bytes were read across the end of the header, from a non-zero offset
C11_Witness ==
    /\ CalledOnEntry("get_bytes_from_block")
    /\ call.arg = <<HEADER_SIZE - 1, 2>>
    /\ Len(CalledData) > HEADER_SIZE
    /\ call.res = Ok(<<HEADER_SIZE, CalledData[HEADER_SIZE + 1]>>)
    /\ CalledData[HEADER_SIZE + 1] # HEADER_SIZE


\* C12 (the root is never created by the backend): construction does not succeed
\* on a root that is not there and creates nothing, and no step of the archive
\* brings the root directory into existence.
C12_RootNeverCreated ==
    [][ /\ (root_path \notin dirs /\ call'.op = "new" /\ call'.res.kind = "Ok") => Constructed
        /\ (call' # call) => (dirs' = dirs /\ files' = files)
        /\ (root_path \notin dirs) => (root_path \notin dirs') ]_vars


\* the operations that read an entry
ReadOps ==
    {"get_block", "get_block_full", "block_exists", "block_size", "block_header",
     "block_tx_count", "get_bytes_from_block"}

\* the result reports absence: BlockNotFound, or false from block_exists
Absence(op, res) ==
    IF op = "block_exists" THEN res.kind = "Ok" /\ res.val = FALSE
    ELSE res.kind = "BlockNotFound"

\* C13 (error classification on reads): a read operation reports absence exactly
\* when the lookup of the sharded path fails with NotFound; when it fails with any
\* other error the operation returns that error as an I/O error.
C13_ErrorClassification ==
    call.op \in ReadOps =>
        LET e == LookupError(dirs, files, path_of(call.hash)) IN
        /\ Absence(call.op, call.res) <=> (e = "NotFound")
        /\ (e \notin {"", "NotFound"}) => (call.res.kind = "IoError" /\ call.res.val = e)

\* block_exists met a regular file in place of a shard directory and returned the
\* I/O error, not false
C13_Witness ==
    /\ call.op = "block_exists"
    /\ call.hash = H2
    /\ IsFile(dirs, files, ShardBlocker)
    /\ call.res = IoError("NotADirectory")





\* C14 (scan failures reach the consumer): a block_list stream whose scan failed
\* on a directory listing does not end like one whose scan completed: it ends
\* only after scans that returned Ok.
C14_ScanErrorSurfaces ==
    stream["s1"].state = "ended" => scan["s1"].res.kind # "IoError"


\* C15 (same-key store race): the existence check of store_block is a step of its
\* own that creates nothing, so while one caller is between its check and its
\* File::create the check of another caller for the same hash still finds no
\* entry; both go on to write and both can return Ok.
C15_SameKeyRace ==
    /\ [][\A p \in Procs :
            (task[p].pc = "check" /\ task'[p].pc # "check") =>
                (files' = files /\ dirs' = dirs)]_vars
    /\ [](\A p, q \in Procs :
            ( /\ p # q
              /\ task[p].pc \in {"mkdir", "create"}
              /\ task[q].pc = "check"
              /\ task[q].hash = task[p].hash
              /\ ~IsFile(dirs, files, path_of(task[p].hash)) )
            => block_exists(task[q].hash) = Ok(FALSE))

\* two overlapping store_block calls for one hash, with different bytes, have both
\* returned Ok
C15_Witness ==
    \E p, q \in Procs :
        /\ p # q
        /\ task[p].pc = "done" /\ task[p].res.kind = "Ok"
        /\ task[q].pc = "done" /\ task[q].res.kind = "Ok"
        /\ task[p].hash = task[q].hash
        /\ ~task[p].solo /\ ~task[q].solo
        /\ task[p].blob # task[q].blob


\* C16 (entry content invariant): when no store_block call for a hash is in
\* progress and the hash has an entry, the entry's content is a complete byte
\* sequence that callers pass to store_block (here: some number of copies of one
\* caller's byte), never a mixture of two callers' bytes.
C16_EntryContent ==
    \A h \in StoreHashes :
        ( /\ \A p \in Procs : ~(InFlight(task[p]) /\ task[p].hash = h)
          /\ IsFile(dirs, files, path_of(h)) )
        => files[path_of(h)] \in UNION {Blobs(p) : p \in Procs}


\* C17 (enumeration terminates): a block_list stream whose consumer keeps polling
\* reaches its end unless the consumer drops it first; at the end the scan has
\* returned with no directory left on its stack, the channel is closed and empty;
\* and after the end the stream yields no further hash.
C17_Terminates ==
    /\ (stream["s1"].state = "open") ~> (stream["s1"].state # "open")
    /\ [](stream["s1"].state = "ended" =>
            /\ scan["s1"].state = "finished"
            /\ scan["s1"].stack = <<>>
            /\ chan["s1"].txClosed
            /\ chan["s1"].buf = <<>>)
    /\ [][stream["s1"].state = "ended" => stream'["s1"].got = stream["s1"].got]_vars

\* a stream has ended after yielding more hashes than its channel holds at once
C17_Witness ==
    /\ stream["s1"].state = "ended"
    /\ scan["s1"].res.kind = "Ok"
    /\ Len(stream["s1"].got) > chan["s1"].cap


\* the files of the tree that pass the scan's filter
Accepted == {f \in DOMAIN files : accept_of(f).some}

\* C18 (bounded channel with backpressure): the channel never holds more hashes
\* than its capacity; a scan at its send (receiver alive) can proceed exactly when
\* the channel holds fewer, and a scan elsewhere can always proceed; and a stream
\* that ended after a complete scan has yielded one hash per accepted file; for
\* every capacity from 1 up.
C18_Backpressure ==
    /\ Len(chan["s1"].buf) <= chan["s1"].cap
    /\ (Running("s1") /\ scan["s1"].pc = "send" /\ ~chan["s1"].rxClosed) =>
          ((ENABLED ScanSend("s1")) <=> (Len(chan["s1"].buf) < chan["s1"].cap))
    /\ (Running("s1") /\ scan["s1"].pc # "send") =>
          ENABLED (ScanPop("s1") \/ ScanNext("s1"))
    /\ (stream["s1"].state = "ended" /\ scan["s1"].res.kind = "Ok") =>
          /\ scan["s1"].sent = Accepted
          /\ Len(stream["s1"].got) = Cardinality(Accepted)
          /\ Range(stream["s1"].got) = {accept_of(f).hash : f \in Accepted}

\* the scan waits at a full channel of capacity 1 with more to send, after the
\* consumer has taken a hash
C18_Witness ==
    /\ Running("s1") /\ scan["s1"].pc = "send"
    /\ chan["s1"].cap = 1
    /\ Len(chan["s1"].buf) = 1
    /\ ~chan["s1"].rxClosed
    /\ stream["s1"].got # <<>>
    /\ ~ENABLED ScanSend("s1")


\* the step drops stream s (Drop::drop, or the drop of its Receiver)
Drops(s) ==
    /\ stream'[s] # stream[s]
    /\ stream'[s].state \in {"dropping", "dropped"}

\* C19 (independent scans): each of two block_list streams over one unchanged tree
\* that is consumed to its end has yielded exactly the hashes that have an entry,
\* each once; and a step that drops one stream changes nothing of the other's
\* scan, channel and stream.
C19_IndependentScans ==
    /\ [](\A s \in Streams :
            stream[s].state = "ended" =>
                /\ Range(stream[s].got) = Entries
                /\ Len(stream[s].got) = Cardinality(Entries))
    /\ [][\A s, t \in Streams :
            (s # t /\ Drops(s)) =>
                (scan'[t] = scan[t] /\ chan'[t] = chan[t] /\ stream'[t] = stream[t])]_vars


\* C20 (store_block_full is store_block on the derived key): when
\* store_block_full(block) has returned, its result and the directories and files
\* of the archive are those that store_block(hash of the block's header, the
\* block's bytes) leaves when run from the same starting state.
C20_FullIsStore ==
    (call.op = "store_block_full" /\ task["p1"].pc = "done") =>
        LET r == StoreOutcome(call.arg.dirs, call.arg.files,
                              HeaderHash(call.arg.raw), call.arg.raw)
        IN  /\ task["p1"].res = r.res
            /\ dirs = r.dirs
            /\ files = r.files


\* the step is one of caller p's store_block call
Stepped(p) == task'[p].pc # task[p].pc \/ task'[p].off # task[p].off

\* C21 (key independence): a step of a store_block call for a hash, whatever its
\* outcome, leaves what is at the path of every other hash as it was, so every
\* read of another hash, and the outcome a store of it would have, are the same
\* after the step as before; this includes a hash in the same two shard
\* directories.
C21_KeyIndependence ==
    [][\A h \in Hashes :
          ( /\ dirs' # dirs \/ files' # files
            /\ \A p \in Procs : Stepped(p) => task'[p].hash # h ) =>
              /\ IsFile(dirs', files', path_of(h)) = IsFile(dirs, files, path_of(h))
              /\ get_block(h)' = get_block(h)
              /\ block_exists(h)' = block_exists(h)
              /\ block_size(h)' = block_size(h)
              /\ block_header(h)' = block_header(h)
              /\ block_tx_count(h)' = block_tx_count(h)
              /\ StoreOutcome(dirs', files', h, <<>>).res = StoreOutcome(dirs, files, h, <<>>).res
      ]_vars

\* a store under H1 has returned Ok while a store under H2, in the same first shard
\* directory, is part-way through its copy; each file holds its own caller's
\* bytes, and H3, in both shard directories of H1, has no entry
C21_Witness ==
    \E p, q \in Procs :
        /\ p # q
        /\ task[p].pc = "done" /\ task[p].res.kind = "Ok" /\ task[p].hash = H1
        /\ task[p].blob # <<>>
        /\ task[q].pc = "copy" /\ task[q].hash = H2
        /\ task[q].off > 0 /\ task[q].off < Len(task[q].blob)
        /\ files[path_of(H1)] = task[p].blob
        /\ files[path_of(H2)] = SubSeq(task[q].blob, 1, task[q].off)
        /\ get_block(H3).kind = "BlockNotFound"


====
